---- MODULE Spec2Model ----
(***************************************************************************)
(* MagicCut: the video processing engine of server/routes.ts and           *)
(* server/videoProcessor.ts over the in-memory storage (MemStorage).       *)
(*                                                                         *)
(* Node runs the server on one event loop.  A request handler or a         *)
(* continuation of processVideo runs from one macrotask until it waits for *)
(* a child process (ffprobe / ffmpeg); the awaits on MemStorage resolve in *)
(* microtasks, which drain before the next macrotask.  Each action below   *)
(* is therefore one such atomic stretch of code.                           *)
(*                                                                         *)
(* Times are integers: milliseconds inside the program, microseconds for   *)
(* the decimal seconds the media tools print (parseFloat(s) * 1000 floored *)
(* is the microsecond value divided by 1000).                              *)
(***************************************************************************)
EXTENDS Integers, Sequences, FiniteSets, TLC

\* ------------------------------------------------------------------ bounds
MaxVideos == 2      \* uploads
MaxRuns == 2        \* accepted start requests
MaxLines == 2       \* lines of the scene scan's output

\* One run alone is explored over more inputs than concurrent runs are
MaxLinesOneRun == 3

\* The runs of separately started videos, and a run with its subscribers, are
\* explored over few inputs
MaxLinesSmall == 1
MaxClients == 2     \* WebSocket connections

\* a line of the scan's output without a pts_time
NoPts == 0 - 1
\* pts_time values (microseconds) the scan may print
PtsTimes == {300400, 2000000}
PtsTimesOneRun == {300400, 2000000, 2300000, 7000999}
\* format.duration values (microseconds) the probe may print
ProbeDurations == {400900, 2500000}
ProbeDurationsOneRun == {400900, 2500000, 10000000}
PtsTimesSmall == {300400, 2000000}
PtsTimesOnce == {2000000}
ProbeDurationsSmall == {2500000}
\* with Home, the scan finds no scene change: the video is one scene
PtsTimesHome == {}

\* ------------------------------------------------------------------ state
VARIABLES
    videos,     \* MemStorage.videos : id -> Video
    videoId,    \* MemStorage.videoId, the next video id
    clips,      \* MemStorage.clips, in id order (clips[k].id = k)
    runs,       \* the processVideo invocations, in start order
    clients,    \* wss.clients : readyState and the messages sent to it
    resp,       \* the response of the last HTTP request
    home,       \* the state of the Home component of one browser
    hook        \* one use of the useWebSocket hook and the sockets it opened

vars == <<videos, videoId, clips, runs, clients, resp, home, hook>>

\* a step of the server alone
ServerOnly == UNCHANGED <<home, hook>>

VideoIds == 1 .. MaxVideos

\* ------------------------------------------------------------- formatting
\* formatDuration: "MM:SS", or "HH:MM:SS" when hours > 0, as its fields
formatDuration(ms) ==
    LET totalSeconds == ms \div 1000
        hours == totalSeconds \div 3600
        minutes == (totalSeconds % 3600) \div 60
        seconds == totalSeconds % 60
    IN  IF hours > 0 THEN <<hours, minutes, seconds>> ELSE <<minutes, seconds>>

formatTimestamp(startMs, endMs) == <<formatDuration(startMs), formatDuration(endMs)>>

\* ----------------------------------------------------------------- storage
NoValue == <<>>     \* null / undefined column

\* createVideo with the videoData of the upload route
createVideo(id) ==
    [id |-> id, duration |-> NoValue, format |-> "", resolution |-> NoValue,
     processingStatus |-> "pending"]

\* updateVideo(id, data): { ...video, ...data }
updateVideo(vs, id, data) ==
    [vs EXCEPT ![id] = [f \in DOMAIN vs[id] |->
                          IF f \in DOMAIN data THEN data[f] ELSE vs[id][f]]]

\* a status update that is not keyed by the id
updateVideoStatus_everyVideo(vs, id, status) ==
    [v \in DOMAIN vs |-> [vs[v] EXCEPT !.processingStatus = status]]

updateVideoStatus(vs, id, status) == updateVideo(vs, id, [processingStatus |-> status])

getVideoInfo(vs, id) ==
    [id |-> vs[id].id, duration |-> vs[id].duration, format |-> vs[id].format,
     resolution |-> vs[id].resolution, processingStatus |-> vs[id].processingStatus]

\* createClip: the clip gets the next id and is added to the table
createClip(cs, clipData) ==
    Append(cs, [f \in DOMAIN clipData \cup {"id"} |->
                  IF f = "id" THEN Len(cs) + 1 ELSE clipData[f]])

RECURSIVE InsertSorted(_, _)
\* x put after the last entry of the sorted s whose key (first component) is
\* not greater
InsertSorted(x, s) ==
    IF s = <<>> THEN <<x>>
    ELSE IF x[1] < Head(s)[1] THEN <<x>> \o s
    ELSE <<Head(s)>> \o InsertSorted(x, Tail(s))

RECURSIVE SortByKey(_)
\* Array.prototype.sort with a numeric comparator (stable), on <<key, item>>
SortByKey(s) ==
    IF s = <<>> THEN <<>>
    ELSE InsertSorted(s[Len(s)], SortByKey(SubSeq(s, 1, Len(s) - 1)))

\* a getClipsByVideo that sorts the clips of all videos
getClipsByVideo_allVideos(cs, id) ==
    LET sorted == SortByKey([k \in DOMAIN cs |-> <<cs[k].sceneIndex, cs[k]>>])
    IN  [k \in DOMAIN sorted |-> sorted[k][2]]

\* getClipsByVideo: filter by videoId, sort by sceneIndex
getClipsByVideo(cs, id) ==
    LET mine(clip) == clip.videoId = id
        found == SelectSeq(cs, mine)
        sorted == SortByKey([k \in DOMAIN found |-> <<found[k].sceneIndex, found[k]>>])
    IN  [k \in DOMAIN sorted |-> sorted[k][2]]

\* ------------------------------------------------------------ broadcasting
OPEN == 1       \* WebSocket.OPEN
CLOSED == 3     \* WebSocket.CLOSED

\* a broadcast that puts the newest event first in what a client is sent
broadcastStatus_newestFirst(cl, evs) ==
    [c \in DOMAIN cl |->
        IF cl[c].readyState = OPEN
        THEN [cl[c] EXCEPT !.received = evs \o @]
        ELSE cl[c]]

\* a broadcast that the first client found not open brings to an end
broadcastStatus_stopsAtClosed(cl, evs) ==
    [c \in DOMAIN cl |->
        IF \A b \in 1 .. c : cl[b].readyState = OPEN
        THEN [cl[c] EXCEPT !.received = @ \o evs]
        ELSE cl[c]]

\* broadcastStatus for each event of evs in turn: client.send to every client
\* whose readyState is OPEN
broadcastStatus(cl, evs) ==
    [c \in DOMAIN cl |->
        IF cl[c].readyState = OPEN
        THEN [cl[c] EXCEPT !.received = @ \o evs]
        ELSE cl[c]]

\* an error status that also carries the clips extracted so far
ErrorEvent_withClips(id, message) ==
    [videoId |-> id, status |-> "error", error |-> message, clips |-> <<>>]

\* the status objects of the process route, as sent ({ videoId, ...status })
ProgressEvent(id, progress, stage) ==
    [videoId |-> id, status |-> "processing", progress |-> progress, stage |-> stage]

CompletedEvent(id, eventClips, videoInfo) ==
    [videoId |-> id, status |-> "completed", progress |-> 100, clips |-> eventClips,
     videoInfo |-> videoInfo]

ErrorEvent(id, message) ==
    [videoId |-> id, status |-> "error", error |-> message]

\* the clip of a status object or status response
ClipInfo(savedClip) ==
    [id |-> savedClip.id, videoId |-> savedClip.videoId,
     sceneIndex |-> savedClip.sceneIndex, startTime |-> savedClip.startTime,
     endTime |-> savedClip.endTime, duration |-> savedClip.duration,
     timestamp |-> formatTimestamp(savedClip.startTime, savedClip.endTime)]

WithSceneCount(videoInfo, n) ==
    [f \in DOMAIN videoInfo \cup {"sceneCount"} |->
        IF f = "sceneCount" THEN n ELSE videoInfo[f]]

\* ---------------------------------------------------------- videoProcessor
MinSceneDuration == 500     \* scenes shorter than this are skipped

\* detectScenes on a scan that succeeded: 0, then floor(pts_time * 1000) of
\* every line that carries a pts_time, sorted ascending
detectScenes(lines) ==
    LET hasPts(line) == line # NoPts
        matched == SelectSeq(lines, hasPts)
        scenes == <<0>> \o [k \in DOMAIN matched |-> matched[k] \div 1000]
        sorted == SortByKey([k \in DOMAIN scenes |-> <<scenes[k], scenes[k]>>])
    IN  [k \in DOMAIN sorted |-> sorted[k][2]]

\* getVideoInfo on a probe that succeeded: floor(duration * 1000)
probeInfo(durationMicros) ==
    [duration |-> durationMicros \div 1000, format |-> "H264",
     resolution |-> <<1920, 1080>>]

\* nextScene of the loop body; i counts from 1 here (i - 1 in the source)
SceneEnd(scenes, videoDuration, i) ==
    IF i < Len(scenes) THEN scenes[i + 1] ELSE videoDuration

\* the loop without its filter: every candidate is extracted
SkipShort_noFilter(scenes, videoDuration, i) == i

RECURSIVE SkipShort_inclusive(_, _, _)
\* the loop skipping a scene of exactly the minimum duration too
SkipShort_inclusive(scenes, videoDuration, i) ==
    IF i > Len(scenes) THEN i
    ELSE IF SceneEnd(scenes, videoDuration, i) - scenes[i] <= MinSceneDuration
         THEN SkipShort_inclusive(scenes, videoDuration, i + 1)
         ELSE i

RECURSIVE SkipShort(_, _, _)
\* the loop from index i up to the first scene that is not skipped
SkipShort(scenes, videoDuration, i) ==
    IF i > Len(scenes) THEN i
    ELSE IF SceneEnd(scenes, videoDuration, i) - scenes[i] < MinSceneDuration
         THEN SkipShort(scenes, videoDuration, i + 1)
         ELSE i

\* progress counted by the scenes still to do
clipProgress_remaining(i, totalScenes) == 30 + (((totalScenes - i) * 60) \div totalScenes)

\* clipProgress after scene i of totalScenes
clipProgress(i, totalScenes) == 30 + ((i * 60) \div totalScenes)

\* position of the thumbnail: startTime + Math.min(1000, duration / 2), in
\* a thumbnail taken one second into the scene whatever its length
thumbnailTime2_oneSecond(startTime, duration) == 2 * startTime + 2000

\* half milliseconds (duration / 2 is not floored)
thumbnailTime2(startTime, duration) ==
    2 * startTime + (IF 2000 < duration THEN 2000 ELSE duration)

\* what the child processes of one run may report
ErrProbe == "Failed to get video info"
ErrProbeParse == "Failed to parse video information"
ErrDetect == "Failed to detect scenes"
ErrNoScenes == "No scenes detected in the video"
ErrExtract == "Failed to extract clip"
ErrThumbnail == "Failed to generate thumbnail"

ProbeOutcomes(durations) ==
    {[error |-> "", duration |-> d] : d \in durations}
        \cup {[error |-> m, duration |-> 0] : m \in {ErrProbe, ErrProbeParse}}

ScanOutputs(times, maxLines) ==
    UNION {[1 .. n -> times \cup {NoPts}] : n \in 0 .. maxLines}

DetectOutcomes(times, maxLines) ==
    {[error |-> "", lines |-> l] : l \in ScanOutputs(times, maxLines)}
        \cup {[error |-> ErrDetect, lines |-> <<>>]}

ExecOutcomes(message) == {"", message}

\* the outcomes of ffprobe and of the scene scan that each specification
\* draws from
Probes == ProbeOutcomes(ProbeDurations)
Scans == DetectOutcomes(PtsTimes, MaxLines)
ProbesOneRun == ProbeOutcomes(ProbeDurationsOneRun)
ScansOneRun == DetectOutcomes(PtsTimesOneRun, MaxLinesOneRun)
ProbesSmall == ProbeOutcomes(ProbeDurationsSmall)
ScansSmall == DetectOutcomes(PtsTimesSmall, MaxLinesSmall)
ScansOnce == DetectOutcomes(PtsTimesOnce, MaxLinesSmall)
ScansHome == DetectOutcomes(PtsTimesHome, MaxLinesSmall)

\* ---------------------------------------------------------------- the runs
\* A run is one invocation of processVideo: its locals, where it waits (pc),
\* and the record of what it has done (events broadcast from its callbacks,
\* calls of the four primitives, ids of the clips it has stored).
NewRun(id) ==
    [videoId |-> id, pc |-> "getVideoInfo", videoInfo |-> NoValue, scenes |-> <<>>,
     i |-> 0, clipResults |-> <<>>,
     events |-> <<>>, calls |-> <<>>, saved |-> <<>>]

Emit(run, evs) == [run EXCEPT !.events = @ \o evs]
Call(run, pc, call) == [run EXCEPT !.pc = pc, !.calls = Append(@, call)]

\* clipData numbered by the scene's position among the detected boundaries
ClipData_rawIndex(id, results, k) ==
    [videoId |-> id, filename |-> SubSeq(results[k].filePath, 2, 3),
     filePath |-> results[k].filePath, thumbnailPath |-> results[k].thumbnailPath,
     startTime |-> results[k].startTime, endTime |-> results[k].endTime,
     duration |-> results[k].endTime - results[k].startTime,
     sceneIndex |-> results[k].filePath[3] - 1]

\* clipData of onComplete for the k-th result (sceneIndex k - 1)
ClipData(id, results, k) ==
    [videoId |-> id, filename |-> SubSeq(results[k].filePath, 2, 3),
     filePath |-> results[k].filePath, thumbnailPath |-> results[k].thumbnailPath,
     startTime |-> results[k].startTime, endTime |-> results[k].endTime,
     duration |-> results[k].endTime - results[k].startTime,
     sceneIndex |-> k - 1]

RECURSIVE SaveClips(_, _, _, _)
\* the loop of onComplete from result k on
SaveClips(cs, id, results, k) ==
    IF k > Len(results) THEN cs
    ELSE SaveClips(createClip(cs, ClipData(id, results, k)), id, results, k + 1)

\* an onError after which processVideo goes on waiting for its child process
OnError_goesOn(r, run, evs, message) ==
    LET id == run.videoId
        all == evs \o <<ErrorEvent(id, message)>>
    IN  /\ videos' = updateVideoStatus(videos, id, "error")
        /\ clients' = broadcastStatus(clients, all)
        /\ runs' = [runs EXCEPT ![r] = Emit(run, all)]
        /\ UNCHANGED <<videoId, clips, resp>>

\* an onError that stores the clips extracted before the failure
OnError_keepsClips(r, run, evs, message) ==
    LET id == run.videoId
        all == evs \o <<ErrorEvent(id, message)>>
    IN  /\ videos' = updateVideoStatus(videos, id, "error")
        /\ clips' = SaveClips(clips, id, run.clipResults, 1)
        /\ clients' = broadcastStatus(clients, all)
        /\ runs' = [runs EXCEPT ![r] = [Emit(run, all) EXCEPT !.pc = "done"]]
        /\ UNCHANGED <<videoId, resp>>

\* an onError that broadcasts the error and stores nothing
OnError_statusKept(r, run, evs, message) ==
    LET id == run.videoId
        all == evs \o <<ErrorEvent(id, message)>>
    IN  /\ clients' = broadcastStatus(clients, all)
        /\ runs' = [runs EXCEPT ![r] = [Emit(run, all) EXCEPT !.pc = "done"]]
        /\ UNCHANGED <<videos, videoId, clips, resp>>

\* catch of processVideo -> onError: store "error", broadcast the message
OnError(r, run, evs, message) ==
    LET id == run.videoId
        all == evs \o <<ErrorEvent(id, message)>>
    IN  /\ videos' = updateVideoStatus(videos, id, "error")
        /\ clients' = broadcastStatus(clients, all)
        /\ runs' = [runs EXCEPT ![r] = [Emit(run, all) EXCEPT !.pc = "done"]]
        /\ UNCHANGED <<videoId, clips, resp>>

\* an onComplete that broadcasts the completed event and stores nothing
OnComplete_nothingStored(r, run, evs) ==
    LET id == run.videoId
        results == run.clipResults
        newClips == SaveClips(clips, id, results, 1)
        saved == [k \in 1 .. Len(results) |-> Len(clips) + k]
        eventClips == [k \in 1 .. Len(results) |-> ClipInfo(newClips[saved[k]])]
        videoInfo == WithSceneCount(getVideoInfo(videos, id), Len(eventClips))
        all == evs \o <<ProgressEvent(id, 100, <<"Processing complete">>),
                        CompletedEvent(id, eventClips, videoInfo)>>
    IN  /\ clients' = broadcastStatus(clients, all)
        /\ runs' = [runs EXCEPT ![r] = [Emit(run, all) EXCEPT !.pc = "done"]]
        /\ UNCHANGED <<videos, videoId, clips, resp>>

\* Step 4 of processVideo and onComplete.  createClip and updateVideo of
\* MemStorage cannot throw here (videos are never removed), so the catch of
\* onComplete is not taken.
OnComplete(r, run, evs) ==
    LET id == run.videoId
        results == run.clipResults
        newClips == SaveClips(clips, id, results, 1)
        saved == [k \in 1 .. Len(results) |-> Len(clips) + k]
        eventClips == [k \in 1 .. Len(results) |-> ClipInfo(newClips[saved[k]])]
        newVideos == updateVideo(videos, id,
                        [duration |-> formatDuration(run.videoInfo.duration),
                         format |-> run.videoInfo.format,
                         resolution |-> run.videoInfo.resolution,
                         processingStatus |-> "completed"])
        videoInfo == WithSceneCount(getVideoInfo(newVideos, id), Len(eventClips))
        all == evs \o <<ProgressEvent(id, 100, <<"Processing complete">>),
                        CompletedEvent(id, eventClips, videoInfo)>>
    IN  /\ clips' = newClips
        /\ videos' = newVideos
        /\ clients' = broadcastStatus(clients, all)
        /\ runs' = [runs EXCEPT ![r] =
                      [Emit(run, all) EXCEPT !.pc = "done", !.saved = saved]]
        /\ UNCHANGED <<videoId, resp>>

\* a loop that reports failure when it ends without a clip
Loop_noClipIsFailure(r, run, evs, i0) ==
    LET j == SkipShort(run.scenes, run.videoInfo.duration, i0)
    IN  IF j > Len(run.scenes)
        THEN IF run.clipResults = <<>>
             THEN OnError(r, [run EXCEPT !.i = j], evs, ErrNoScenes)
             ELSE OnComplete(r, [run EXCEPT !.i = j], evs)
        ELSE /\ runs' = [runs EXCEPT ![r] =
                    Call(Emit([run EXCEPT !.i = j], evs), "extractClip",
                         <<"extractClip", run.scenes[j],
                           SceneEnd(run.scenes, run.videoInfo.duration, j)>>)]
             /\ clients' = broadcastStatus(clients, evs)
             /\ UNCHANGED <<videos, videoId, clips, resp>>

\* the for loop of processVideo from index i0 until it waits for extractClip
\* or falls through to step 4
Loop(r, run, evs, i0) ==
    LET j == SkipShort(run.scenes, run.videoInfo.duration, i0)
    IN  IF j > Len(run.scenes)
        THEN OnComplete(r, [run EXCEPT !.i = j], evs)
        ELSE /\ runs' = [runs EXCEPT ![r] =
                    Call(Emit([run EXCEPT !.i = j], evs), "extractClip",
                         <<"extractClip", run.scenes[j],
                           SceneEnd(run.scenes, run.videoInfo.duration, j)>>)]
             /\ clients' = broadcastStatus(clients, evs)
             /\ UNCHANGED <<videos, videoId, clips, resp>>

\* ------------------------------------------------------------ client state
\* Home on mount: the useState initial values; no socket, no query data.
\* uploadedVideoId 0 is null; videoInfo and videoStatusData hold no element
\* (null, undefined) or one; error "" is undefined.
\*   ws        the server's entry (in clients) of Home's WebSocket, 0: none yet
\*   seen      how many of the messages sent to ws Home has handled
\*   request   the POST .../process sent and not yet handled by the server
\*   accepted  the POST .../process answered, its .then not yet run
\*   stale     the status query is due for a fetch (enabled, invalidated)
\*   fetching  the status response on its way to the query, if any
HomeInit ==
    [uploadedVideoId |-> 0,
     processingStatus |-> [status |-> "pending", progress |-> 0,
                           stage |-> <<"idle">>, error |-> ""],
     clips |-> <<>>,
     videoInfo |-> <<>>,
     videoStatusData |-> <<>>,
     ws |-> 0, seen |-> 0,
     request |-> "none", accepted |-> "none",
     stale |-> FALSE, fetching |-> <<>>]

\* useWebSocket before its component is mounted
\*   socket    the socket the connect effect holds (its local ws), 0: none
\*   sockets   every WebSocket the hook has created, each with its
\*             readyState, the value of `enabled` its handlers closed over,
\*             and the reconnect timer its onclose set
HookInit ==
    [mounted |-> FALSE, unmounted |-> FALSE, enabled |-> FALSE,
     socket |-> 0, sockets |-> <<>>]

\* ----------------------------------------------------------------- actions
Init ==
    /\ videos = <<>>
    /\ videoId = 1
    /\ clips = <<>>
    /\ runs = <<>>
    /\ clients = <<>>
    /\ resp = [req |-> "none"]
    /\ home = HomeInit
    /\ hook = HookInit

\* POST /api/videos/upload
Upload(hasFile) ==
    IF ~hasFile
    THEN /\ resp' = [req |-> "upload", code |-> 400]
         /\ UNCHANGED <<videos, videoId, clips, runs, clients>>
    ELSE /\ videos' = Append(videos, createVideo(videoId))
         /\ videoId' = videoId + 1
         /\ resp' = [req |-> "upload", code |-> 200, id |-> videoId]
         /\ UNCHANGED <<clips, runs, clients>>

\* a start that begins the run and leaves the stored status as it was
StartProcessing_statusUntouched(id) ==
    IF id \notin DOMAIN videos
    THEN /\ resp' = [req |-> "process", id |-> id, code |-> 404]
         /\ UNCHANGED <<videos, videoId, clips, runs, clients>>
    ELSE LET evs == <<ProgressEvent(id, 5, <<"Analyzing video...">>)>>
         IN  /\ runs' = Append(runs,
                          Call(Emit(NewRun(id), evs), "getVideoInfo", <<"getVideoInfo">>))
             /\ clients' = broadcastStatus(clients, evs)
             /\ resp' = [req |-> "process", id |-> id, code |-> 200]
             /\ UNCHANGED <<videos, videoId, clips>>

\* POST /api/videos/:id/process, up to the first wait of processVideo
StartProcessing(id) ==
    IF id \notin DOMAIN videos
    THEN /\ resp' = [req |-> "process", id |-> id, code |-> 404]
         /\ UNCHANGED <<videos, videoId, clips, runs, clients>>
    ELSE LET evs == <<ProgressEvent(id, 5, <<"Analyzing video...">>)>>
         IN  /\ videos' = updateVideoStatus(videos, id, "processing")
             /\ runs' = Append(runs,
                          Call(Emit(NewRun(id), evs), "getVideoInfo", <<"getVideoInfo">>))
             /\ clients' = broadcastStatus(clients, evs)
             /\ resp' = [req |-> "process", id |-> id, code |-> 200]
             /\ UNCHANGED <<videoId, clips>>

\* the status response of GET /api/videos/:id/status
StatusResponse(id) ==
    LET found == getClipsByVideo(clips, id)
    IN  [req |-> "status", id |-> id, code |-> 200,
         status |-> videos[id].processingStatus,
         progress |-> IF videos[id].processingStatus = "completed" THEN 100 ELSE 0,
         clips |-> [k \in 1 .. Len(found) |-> ClipInfo(found[k])],
         videoInfo |-> WithSceneCount(getVideoInfo(videos, id), Len(found))]

\* GET /api/videos/:id/status
\* a status route that answers for an id without a record as for a new video
GetStatus_pendingForMissing(id) ==
    /\ resp' = IF id \notin DOMAIN videos
               THEN [req |-> "status", id |-> id, code |-> 200,
                     status |-> "pending", progress |-> 0, clips |-> <<>>]
               ELSE StatusResponse(id)
    /\ UNCHANGED <<videos, videoId, clips, runs, clients>>

GetStatus(id) ==
    /\ resp' = IF id \notin DOMAIN videos
               THEN [req |-> "status", id |-> id, code |-> 404]
               ELSE StatusResponse(id)
    /\ UNCHANGED <<videos, videoId, clips, runs, clients>>

\* wss.on("connection"): the server has a new client, open
WsConnect ==
    /\ clients' = Append(clients, [readyState |-> OPEN, received |-> <<>>])
    /\ UNCHANGED <<videos, videoId, clips, runs, resp>>

\* ws.on("close"): the connection of client c has ended.  wss.clients drops
\* the client; its entry is kept here, closed, with what it had been sent.
WsClose(c) ==
    /\ clients[c].readyState = OPEN
    /\ clients' = [clients EXCEPT ![c].readyState = CLOSED]
    /\ UNCHANGED <<videos, videoId, clips, runs, resp>>

\* a probe that is called a second time when its first call has failed
ProbeReturn_retriedOnce(r, out) ==
    /\ runs[r].pc = "getVideoInfo"
    /\ IF out.error # ""
       THEN IF Len(runs[r].calls) = 1
            THEN /\ runs' = [runs EXCEPT ![r] =
                               Call(runs[r], "getVideoInfo", <<"getVideoInfo">>)]
                 /\ UNCHANGED <<videos, videoId, clips, clients, resp>>
            ELSE OnError(r, runs[r], <<>>, out.error)
       ELSE LET evs == <<ProgressEvent(runs[r].videoId, 15, <<"Detecting scenes...">>)>>
                run == [runs[r] EXCEPT !.videoInfo = probeInfo(out.duration)]
            IN  /\ runs' = [runs EXCEPT ![r] =
                              Call(Emit(run, evs), "detectScenes", <<"detectScenes">>)]
                /\ clients' = broadcastStatus(clients, evs)
                /\ UNCHANGED <<videos, videoId, clips, resp>>

\* a probe whose failure is swallowed: processVideo goes on to detectScenes
ProbeReturn_swallowed(r, out) ==
    /\ runs[r].pc = "getVideoInfo"
    /\ LET evs == <<ProgressEvent(runs[r].videoId, 15, <<"Detecting scenes...">>)>>
           run == IF out.error # "" THEN runs[r]
                  ELSE [runs[r] EXCEPT !.videoInfo = probeInfo(out.duration)]
       IN  /\ runs' = [runs EXCEPT ![r] =
                         Call(Emit(run, evs), "detectScenes", <<"detectScenes">>)]
           /\ clients' = broadcastStatus(clients, evs)
           /\ UNCHANGED <<videos, videoId, clips, resp>>

\* ffprobe returns: getVideoInfo resolves or rejects, processVideo goes on to
\* its wait for detectScenes
ProbeReturn(r, out) ==
    /\ runs[r].pc = "getVideoInfo"
    /\ IF out.error # ""
       THEN OnError(r, runs[r], <<>>, out.error)
       ELSE LET evs == <<ProgressEvent(runs[r].videoId, 15, <<"Detecting scenes...">>)>>
                run == [runs[r] EXCEPT !.videoInfo = probeInfo(out.duration)]
            IN  /\ runs' = [runs EXCEPT ![r] =
                              Call(Emit(run, evs), "detectScenes", <<"detectScenes">>)]
                /\ clients' = broadcastStatus(clients, evs)
                /\ UNCHANGED <<videos, videoId, clips, resp>>

\* the scene scan returns: detectScenes resolves or rejects, processVideo
\* enters the loop
DetectReturn(r, out) ==
    /\ runs[r].pc = "detectScenes"
    /\ IF out.error # ""
       THEN OnError(r, runs[r], <<>>, out.error)
       ELSE LET scenes == detectScenes(out.lines)
                run == [runs[r] EXCEPT !.scenes = scenes]
            IN  IF Len(scenes) = 0
                THEN OnError(r, run, <<>>, ErrNoScenes)
                ELSE Loop(r, run,
                          <<ProgressEvent(run.videoId, 30, <<"Extracting clips...">>)>>, 1)

\* an extractClip whose promise is left unsettled when ffmpeg fails
ExtractReturn_unsettled(r, error) ==
    /\ runs[r].pc = "extractClip"
    /\ IF error # ""
       THEN /\ runs' = [runs EXCEPT ![r].pc = "unsettled"]
            /\ UNCHANGED <<videos, videoId, clips, clients, resp>>
       ELSE LET run == runs[r]
                startTime == run.scenes[run.i]
                endTime == SceneEnd(run.scenes, run.videoInfo.duration, run.i)
            IN  /\ runs' = [runs EXCEPT ![r] =
                      Call(run, "generateThumbnail",
                           <<"generateThumbnail",
                             thumbnailTime2(startTime, endTime - startTime)>>)]
                /\ UNCHANGED <<videos, videoId, clips, clients, resp>>

\* ffmpeg returns from extractClip: on success generateThumbnail is called
ExtractReturn(r, error) ==
    /\ runs[r].pc = "extractClip"
    /\ IF error # ""
       THEN OnError(r, runs[r], <<>>, error)
       ELSE LET run == runs[r]
                startTime == run.scenes[run.i]
                endTime == SceneEnd(run.scenes, run.videoInfo.duration, run.i)
            IN  /\ runs' = [runs EXCEPT ![r] =
                      Call(run, "generateThumbnail",
                           <<"generateThumbnail",
                             thumbnailTime2(startTime, endTime - startTime)>>)]
                /\ UNCHANGED <<videos, videoId, clips, clients, resp>>

\* ffmpeg returns from generateThumbnail: the clip is pushed, progress is
\* reported and the loop goes on
ThumbnailReturn(r, error) ==
    /\ runs[r].pc = "generateThumbnail"
    /\ IF error # ""
       THEN OnError(r, runs[r], <<>>, error)
       ELSE LET run == runs[r]
                id == run.videoId
                i == run.i
                totalScenes == Len(run.scenes)
                clip == [filePath |-> <<"clips", id, i>>,
                         thumbnailPath |-> <<"thumbnails", id, i>>,
                         startTime |-> run.scenes[i],
                         endTime |-> SceneEnd(run.scenes, run.videoInfo.duration, i)]
                pushed == [run EXCEPT !.clipResults = Append(@, clip)]
                evs == <<ProgressEvent(id, clipProgress(i, totalScenes),
                                       <<"Extracting clip", i, totalScenes>>)>>
            IN  Loop(r, pushed, evs, i + 1)

\* processVideo has returned: onComplete or onError has run
Done(r) == runs[r].pc = "done"
\* the runs of a video that have not ended
ActiveRuns(id) == {r \in DOMAIN runs : runs[r].videoId = id /\ ~Done(r)}

\* the steps of the runs, with the outcomes the child processes are drawn from
RunStep(probes, scans) ==
    \/ \E r \in DOMAIN runs, out \in probes : ProbeReturn(r, out)
    \/ \E r \in DOMAIN runs, out \in scans : DetectReturn(r, out)
    \/ \E r \in DOMAIN runs, error \in ExecOutcomes(ErrExtract) : ExtractReturn(r, error)
    \/ \E r \in DOMAIN runs, error \in ExecOutcomes(ErrThumbnail) : ThumbnailReturn(r, error)

\* the server: uploads, start requests and status queries in any order, with
\* the runs they start going on concurrently
Next ==
    \/ \E hasFile \in BOOLEAN : videoId <= MaxVideos /\ Upload(hasFile) /\ ServerOnly
    \/ \E id \in VideoIds : Len(runs) < MaxRuns /\ StartProcessing(id) /\ ServerOnly
    \/ \E id \in VideoIds : GetStatus(id) /\ ServerOnly
    \/ RunStep(Probes, Scans) /\ ServerOnly

Spec == Init /\ [][Next]_vars

\* the server when no video is started while a run of it is still going on
NextSerial ==
    \/ \E hasFile \in BOOLEAN : videoId <= MaxVideos /\ Upload(hasFile) /\ ServerOnly
    \/ \E id \in VideoIds :
          Len(runs) < MaxRuns /\ ActiveRuns(id) = {} /\ StartProcessing(id) /\ ServerOnly
    \/ \E id \in VideoIds : GetStatus(id) /\ ServerOnly
    \/ RunStep(Probes, Scans) /\ ServerOnly

SpecSerial == Init /\ [][NextSerial]_vars

\* the runs of several videos, each video started once at most
NextOnce ==
    \/ videoId <= MaxVideos /\ Upload(TRUE) /\ ServerOnly
    \/ \E id \in VideoIds :
          (\A r \in DOMAIN runs : runs[r].videoId # id) /\ StartProcessing(id) /\ ServerOnly
    \/ RunStep(ProbesSmall, ScansOnce) /\ ServerOnly

SpecOnce == Init /\ [][NextOnce]_vars

\* one run, and requests for any id, of a video or of none
NextLookup ==
    \/ \E hasFile \in BOOLEAN : videoId <= MaxVideos /\ Upload(hasFile) /\ ServerOnly
    \/ \E id \in VideoIds :
          (runs = <<>> \/ id \notin DOMAIN videos) /\ StartProcessing(id) /\ ServerOnly
    \/ \E id \in VideoIds : GetStatus(id) /\ ServerOnly
    \/ RunStep(ProbesSmall, ScansSmall) /\ ServerOnly

SpecLookup == Init /\ [][NextLookup]_vars

\* one upload and one run, with clients that connect and disconnect
NextWs ==
    \/ videoId = 1 /\ Upload(TRUE) /\ ServerOnly
    \/ runs = <<>> /\ StartProcessing(1) /\ ServerOnly
    \/ RunStep(ProbesSmall, ScansSmall) /\ ServerOnly
    \/ Len(clients) < MaxClients /\ WsConnect /\ ServerOnly
    \/ \E c \in DOMAIN clients : WsClose(c) /\ ServerOnly

SpecWs == Init /\ [][NextWs]_vars

\* one upload and one run of the pipeline
NextOneRun ==
    \/ videoId = 1 /\ Upload(TRUE) /\ ServerOnly
    \/ runs = <<>> /\ StartProcessing(1) /\ ServerOnly
    \/ RunStep(ProbesOneRun, ScansOneRun) /\ ServerOnly

SpecOneRun == Init /\ [][NextOneRun]_vars

\* one run, among requests, whose child processes all return in the end: a
\* step of the run that stays possible is taken
SpecLookupFair ==
    SpecLookup
        /\ WF_vars(RunStep(ProbesSmall, ScansSmall) /\ ServerOnly)

\* -------------------------------------------------------------------- Home
MaxRunsHome == 2

\* the body shared by ws.onmessage and by the effect on videoStatusData:
\* setProcessingStatus, setClips, setVideoInfo from a status object
applyStatusData(h, data) ==
    LET prevStatus == h.processingStatus
    IN  [h EXCEPT
           !.processingStatus =
               [status |-> IF "status" \in DOMAIN data THEN data.status
                           ELSE prevStatus.status,
                progress |-> IF "progress" \in DOMAIN data THEN data.progress
                             ELSE prevStatus.progress,
                stage |-> IF "stage" \in DOMAIN data THEN data.stage
                          ELSE prevStatus.stage,
                error |-> IF "error" \in DOMAIN data THEN data.error ELSE ""],
           !.clips = IF "clips" \in DOMAIN data /\ Len(data.clips) > 0
                     THEN data.clips ELSE @,
           !.videoInfo = IF "videoInfo" \in DOMAIN data
                         THEN <<data.videoInfo>> ELSE @]

\* startProcessing up to xhr.onload with status 200: the upload is stored,
\* Home takes its id, asks for the processing to start, and its effects
\* create the WebSocket and enable the status query
HomeUpload ==
    /\ home.uploadedVideoId = 0
    /\ Upload(TRUE)
    /\ home' = [home EXCEPT !.uploadedVideoId = videoId,
                            !.request = "process",
                            !.stale = TRUE]
    /\ UNCHANGED hook

\* the server accepts Home's WebSocket
HomeWsOpen ==
    /\ home.uploadedVideoId # 0
    /\ home.ws = 0
    /\ WsConnect
    /\ home' = [home EXCEPT !.ws = Len(clients) + 1]
    /\ UNCHANGED hook

\* the server handles the POST .../process of Home
HomeRequestHandled ==
    /\ home.request # "none"
    /\ StartProcessing(home.uploadedVideoId)
    /\ home' = [home EXCEPT !.request = "none", !.accepted = home.request]
    /\ UNCHANGED hook

\* the .then of apiRequest: tryAgain sets the status, both invalidate the
\* status query (a fetch on its way is cancelled, a new one is due)
HomeAccepted ==
    /\ home.accepted # "none"
    /\ home' = [home EXCEPT
                  !.processingStatus =
                      IF home.accepted = "retry"
                      THEN [status |-> "processing", progress |-> 0,
                            stage |-> <<"Restarting processing...">>, error |-> ""]
                      ELSE @,
                  !.accepted = "none",
                  !.stale = TRUE,
                  !.fetching = <<>>]
    /\ UNCHANGED <<videos, videoId, clips, runs, clients, resp, hook>>

\* tryAgain with an uploaded video (the button is shown for status "error")
HomeTryAgain ==
    /\ home.uploadedVideoId # 0
    /\ home.processingStatus.status = "error"
    /\ home.request = "none"
    /\ home.accepted = "none"
    /\ home' = [home EXCEPT !.request = "retry"]
    /\ UNCHANGED <<videos, videoId, clips, runs, clients, resp, hook>>

\* ws.onmessage of Home for the next message the server sent
HomeOnMessage_everyVideo ==
    /\ home.ws # 0
    /\ home.seen < Len(clients[home.ws].received)
    /\ LET data == clients[home.ws].received[home.seen + 1]
       IN  home' = [applyStatusData(home, data) EXCEPT !.seen = @ + 1]
    /\ UNCHANGED <<videos, videoId, clips, runs, clients, resp, hook>>

HomeOnMessage ==
    /\ home.ws # 0
    /\ home.seen < Len(clients[home.ws].received)
    /\ LET data == clients[home.ws].received[home.seen + 1]
       IN  home' = IF data.videoId = home.uploadedVideoId
                   THEN [applyStatusData(home, data) EXCEPT !.seen = @ + 1]
                   ELSE [home EXCEPT !.seen = @ + 1]
    /\ UNCHANGED <<videos, videoId, clips, runs, clients, resp, hook>>

\* the query function of the status query: it asks the server for the
\* current record of the video, which the status route answers
fetchStatus(id) == GetStatus(id)

\* the status query fetches: when it is due, and every refetchInterval while
\* the status Home holds is "processing"; one fetch at a time
HomePoll ==
    /\ home.uploadedVideoId # 0
    /\ home.fetching = <<>>
    /\ home.stale \/ home.processingStatus.status = "processing"
    /\ fetchStatus(home.uploadedVideoId)
    /\ home' = [home EXCEPT !.stale = FALSE, !.fetching = <<resp'>>]
    /\ UNCHANGED hook

\* the status response arrives: the query keeps its data when the response
\* equals it, and the effect on videoStatusData runs when the data changed
HomePollResponse ==
    /\ home.fetching # <<>>
    /\ LET arrived == [home EXCEPT !.videoStatusData = home.fetching,
                                   !.fetching = <<>>]
       IN  home' = IF home.fetching = home.videoStatusData
                   THEN arrived
                   ELSE applyStatusData(arrived, home.fetching[1])
    /\ UNCHANGED <<videos, videoId, clips, runs, clients, resp, hook>>

\* Home's WebSocket is lost
HomeWsLost ==
    /\ home.ws # 0
    /\ WsClose(home.ws)
    /\ UNCHANGED <<home, hook>>

\* one browser with Home: its upload, the runs it starts, what it is pushed
\* and what it polls
NextHome ==
    \/ HomeUpload
    \/ HomeWsOpen
    \/ HomeRequestHandled
    \/ HomeAccepted
    \/ Len(runs) < MaxRunsHome /\ HomeTryAgain
    \/ HomeOnMessage
    \/ HomePoll
    \/ HomePollResponse
    \/ HomeWsLost
    \/ RunStep(ProbesSmall, ScansHome) /\ ServerOnly

SpecHome == Init /\ [][NextHome]_vars

\* Home with what it is pushed only, and another user's video on the same
\* server
NextHomeShared ==
    \/ HomeUpload
    \/ HomeWsOpen
    \/ HomeRequestHandled
    \/ HomeAccepted
    \/ HomeOnMessage
    \/ home.uploadedVideoId = 1 /\ videoId = 2 /\ Upload(TRUE) /\ ServerOnly
    \/ /\ 2 \in DOMAIN videos
       /\ \A r \in DOMAIN runs : runs[r].videoId # 2
       /\ StartProcessing(2)
       /\ ServerOnly
    \/ RunStep(ProbesSmall, ScansHome) /\ ServerOnly

SpecHomeShared == Init /\ [][NextHomeShared]_vars

\* Home when every WebSocket message is lost: it learns of its runs by the
\* status query alone
NextHomePolled ==
    \/ HomeUpload
    \/ HomeRequestHandled
    \/ HomeAccepted
    \/ Len(runs) < MaxRunsHome /\ HomeTryAgain
    \/ HomePoll
    \/ HomePollResponse
    \/ RunStep(ProbesSmall, ScansHome) /\ ServerOnly

SpecHomePolled == Init /\ [][NextHomePolled]_vars

\* the child processes return, requests are handled and answered, and the
\* status query fetches when it is due: each of these steps, when it stays
\* possible, is taken.  What the user does (upload, try again) is not forced.
SpecHomePolledFair ==
    SpecHomePolled
        /\ WF_vars(RunStep(ProbesSmall, ScansHome) /\ ServerOnly)
        /\ WF_vars(HomeRequestHandled)
        /\ WF_vars(HomeAccepted)
        /\ WF_vars(HomePoll)
        /\ WF_vars(HomePollResponse)

\* ------------------------------------------------------------ useWebSocket
MaxSockets == 4     \* WebSockets one use of the hook may create

\* connect(): a new WebSocket whose handlers close over the value of
\* `enabled` of the render that created this connect
connect(h, enabled) ==
    [h EXCEPT !.sockets = Append(@, [readyState |-> "open", enabled |-> enabled,
                                     timer |-> "none"])]

\* the cleanup of the connect effect: ws.close() on the socket it holds
cleanup(h) ==
    IF h.socket # 0 /\ h.sockets[h.socket].readyState = "open"
    THEN [h EXCEPT !.sockets[h.socket].readyState = "closing"]
    ELSE h

\* the connect effect: connect when enabled, and hold the socket
effect(h, enabled) ==
    IF enabled
    THEN [connect(h, enabled) EXCEPT !.socket = Len(h.sockets) + 1]
    ELSE [h EXCEPT !.socket = 0]

\* the component mounts
HookMount(enabled) ==
    /\ ~hook.mounted
    /\ ~hook.unmounted
    /\ hook' = [effect(hook, enabled) EXCEPT !.mounted = TRUE, !.enabled = enabled]
    /\ UNCHANGED <<videos, videoId, clips, runs, clients, resp, home>>

\* a render with another value of enabled: the cleanup of the old effect,
\* then the effect with the new connect
HookRender(enabled) ==
    /\ hook.mounted
    /\ enabled # hook.enabled
    /\ hook' = [effect(cleanup(hook), enabled) EXCEPT !.enabled = enabled]
    /\ UNCHANGED <<videos, videoId, clips, runs, clients, resp, home>>

\* the component unmounts
HookUnmount ==
    /\ hook.mounted
    /\ hook' = [cleanup(hook) EXCEPT !.mounted = FALSE, !.unmounted = TRUE]
    /\ UNCHANGED <<videos, videoId, clips, runs, clients, resp, home>>

\* ws.onclose: the socket has closed, after ws.close() or by itself; the
\* reconnect timer is set when the enabled of the closure holds
HookSocketClosed(s) ==
    /\ hook.sockets[s].readyState # "closed"
    /\ hook' = [hook EXCEPT
                  !.sockets[s].readyState = "closed",
                  !.sockets[s].timer = IF hook.sockets[s].enabled THEN "set" ELSE "none"]
    /\ UNCHANGED <<videos, videoId, clips, runs, clients, resp, home>>

\* the reconnect timer of socket s fires: connect() of the same closure.
\* (The function onclose returns is not used by anyone: the timer is
\* never cleared.)
HookTimer(s) ==
    /\ hook.sockets[s].timer = "set"
    /\ hook' = IF hook.sockets[s].enabled
               THEN [connect(hook, hook.sockets[s].enabled) EXCEPT
                        !.sockets[s].timer = "fired"]
               ELSE [hook EXCEPT !.sockets[s].timer = "fired"]
    /\ UNCHANGED <<videos, videoId, clips, runs, clients, resp, home>>

\* one use of the hook: mounted, re-rendered with enabled changing, unmounted
NextHook ==
    \/ \E enabled \in BOOLEAN : HookMount(enabled)
    \/ \E enabled \in BOOLEAN : Len(hook.sockets) < MaxSockets /\ HookRender(enabled)
    \/ HookUnmount
    \/ \E s \in DOMAIN hook.sockets : HookSocketClosed(s)
    \/ \E s \in DOMAIN hook.sockets : Len(hook.sockets) < MaxSockets /\ HookTimer(s)

SpecHook == Init /\ [][NextHook]_vars

\* ------------------------------------------------------------------ claims
LastEvent(r) == runs[r].events[Len(runs[r].events)]
Completed(r) == Done(r) /\ LastEvent(r).status = "completed"
Failed(r) == Done(r) /\ LastEvent(r).status = "error"

\* the phase an event belongs to: Probing, Detecting, Extracting, the 100%
\* report, terminal
PhaseRank(ev) ==
    IF ev.status # "processing" THEN 5
    ELSE CASE ev.stage[1] = "Analyzing video..." -> 1
           [] ev.stage[1] = "Detecting scenes..." -> 2
           [] ev.stage[1] \in {"Extracting clips...", "Extracting clip"} -> 3
           [] OTHER -> 4

\* C1: a start request for a video with a run that is not yet terminal is
\* rejected and changes nothing; a start request for a stored video without
\* such a run is accepted and starts one run.
C1_StartIsSingleFlight ==
    [][\A id \in VideoIds :
         StartProcessing(id) =>
            IF ActiveRuns(id) # {}
            THEN resp'.code # 200 /\ UNCHANGED <<videos, clips, runs, clients>>
            ELSE id \in DOMAIN videos =>
                    resp'.code = 200 /\ Len(runs') = Len(runs) + 1]_vars

\* C2: every video has at most one run that is not yet terminal.
C2_AtMostOneActiveRun ==
    \A id \in VideoIds : Cardinality(ActiveRuns(id)) <= 1

ClipRange(clip) == [startTime |-> clip.startTime, endTime |-> clip.endTime]
EventClips(r) == LastEvent(r).clips
StoredClips(r) == [k \in 1 .. Len(runs[r].saved) |-> clips[runs[r].saved[k]]]

\* C3: the clips of a completed run, in its completed event and in storage,
\* carry the scene indices 0, 1, ..., n-1 in list order.
C3_SceneIndicesContiguous ==
    \A r \in DOMAIN runs :
        Completed(r) =>
            /\ Len(StoredClips(r)) = Len(runs[r].clipResults)
            /\ Len(EventClips(r)) = Len(runs[r].clipResults)
            /\ \A k \in 1 .. Len(EventClips(r)) :
                  /\ EventClips(r)[k].sceneIndex = k - 1
                  /\ StoredClips(r)[k].sceneIndex = k - 1
                  /\ StoredClips(r)[k].videoId = runs[r].videoId

\* a completed run that kept two clips after discarding its first candidate
C3_Witness ==
    \E r \in DOMAIN runs :
        /\ Completed(r)
        /\ Len(EventClips(r)) >= 2
        /\ EventClips(r)[1].startTime > 0

\* C4: every clip a run produces, stores or reports has endTime > startTime,
\* and the stored and reported duration is endTime - startTime.
C4_ClipTimes ==
    /\ \A r \in DOMAIN runs : \A k \in DOMAIN runs[r].clipResults :
          runs[r].clipResults[k].endTime > runs[r].clipResults[k].startTime
    /\ \A k \in DOMAIN clips :
          /\ clips[k].endTime > clips[k].startTime
          /\ clips[k].duration = clips[k].endTime - clips[k].startTime
    /\ \A r \in DOMAIN runs : Completed(r) =>
          \A k \in DOMAIN EventClips(r) :
              /\ EventClips(r)[k].endTime > EventClips(r)[k].startTime
              /\ EventClips(r)[k].duration
                    = EventClips(r)[k].endTime - EventClips(r)[k].startTime

\* clips are stored by a run whose boundaries had a candidate of length zero
\* or less
C4_Witness ==
    \E r \in DOMAIN runs :
        /\ Completed(r)
        /\ runs[r].saved # <<>>
        /\ \E k \in DOMAIN runs[r].scenes :
              SceneEnd(runs[r].scenes, runs[r].videoInfo.duration, k)
                 <= runs[r].scenes[k]

\* C5: in the events of one run the percentage never decreases and the
\* phases follow Probing, Detecting, Extracting, terminal.
C5_ProgressMonotonic ==
    \A r \in DOMAIN runs :
        \A a, b \in DOMAIN runs[r].events :
            a < b =>
                LET ea == runs[r].events[a]
                    eb == runs[r].events[b]
                IN  /\ PhaseRank(ea) <= PhaseRank(eb)
                    /\ PhaseRank(ea) \in {1, 2} => PhaseRank(ea) < PhaseRank(eb)
                    /\ ("progress" \in DOMAIN ea /\ "progress" \in DOMAIN eb)
                          => ea.progress <= eb.progress

\* a completed run that reported progress after each of two extracted clips
C5_Witness ==
    \E r \in DOMAIN runs :
        /\ Completed(r)
        /\ Cardinality({k \in DOMAIN runs[r].events :
                           /\ "stage" \in DOMAIN runs[r].events[k]
                           /\ runs[r].events[k].stage[1] = "Extracting clip"}) >= 2

\* the candidate ranges of a boundary sequence b closed by the duration D
Candidates(b, D) ==
    [k \in DOMAIN b |->
        [startTime |-> b[k], endTime |-> IF k = Len(b) THEN D ELSE b[k + 1]]]

LongEnough(c) == c.endTime - c.startTime >= 500

\* C6: the clips of a completed run are, in order, the candidate ranges of at
\* least 500 ms; b = [0,2000,2300,7000], D = 10000 gives [0,2000),
\* [2300,7000), [7000,10000).
C6_ClipsAreLongCandidates ==
    \A r \in DOMAIN runs :
        Completed(r) =>
            LET kept == SelectSeq(Candidates(runs[r].scenes, runs[r].videoInfo.duration),
                                  LongEnough)
            IN  /\ [k \in DOMAIN EventClips(r) |-> ClipRange(EventClips(r)[k])] = kept
                /\ [k \in DOMAIN StoredClips(r) |-> ClipRange(StoredClips(r)[k])] = kept
                /\ (runs[r].scenes = <<0, 2000, 2300, 7000>>
                      /\ runs[r].videoInfo.duration = 10000)
                   => kept = <<[startTime |-> 0, endTime |-> 2000],
                               [startTime |-> 2300, endTime |-> 7000],
                               [startTime |-> 7000, endTime |-> 10000]>>

\* the run of the example has completed
C6_Witness ==
    \E r \in DOMAIN runs :
        /\ Completed(r)
        /\ runs[r].scenes = <<0, 2000, 2300, 7000>>
        /\ runs[r].videoInfo.duration = 10000

\* a completed run kept a candidate of exactly 500 ms
C6_WitnessBoundary ==
    \E r \in DOMAIN runs :
        /\ Completed(r)
        /\ \E k \in DOMAIN EventClips(r) : EventClips(r)[k].duration = 500

\* C7: a run whose scan found no scene cut ends failed; it never completes.
C7_NoCutFails ==
    \A r \in DOMAIN runs :
        (Done(r) /\ runs[r].scenes = <<0>>) =>
            /\ Failed(r)
            /\ LastEvent(r).error = ErrNoScenes

\* C8: a run whose probe has not delivered metadata never enters Detecting:
\* it calls nothing but the probe, emits only the Probing event and then the
\* error event of the probe's failure, and stores no clip.
C8_ProbeFailureStops ==
    \A r \in DOMAIN runs :
        runs[r].videoInfo = NoValue =>
            /\ runs[r].calls = <<(<<"getVideoInfo">>)>>
            /\ runs[r].saved = <<>>
            /\ \A k \in DOMAIN runs[r].events : PhaseRank(runs[r].events[k]) \in {1, 5}
            /\ Done(r) =>
                  /\ Failed(r)
                  /\ Len(runs[r].events) = 2
                  /\ LastEvent(r).error \in {ErrProbe, ErrProbeParse}

\* a run has ended on a failed probe
C8_Witness ==
    \E r \in DOMAIN runs :
        Done(r) /\ runs[r].videoInfo = NoValue /\ LastEvent(r).error = ErrProbeParse

\* C9: every event with status "error" carries an error message and no clips.
C9_ErrorEventShape ==
    \A r \in DOMAIN runs : \A k \in DOMAIN runs[r].events :
        LET ev == runs[r].events[k]
        IN  ev.status = "error" =>
                /\ DOMAIN ev = {"videoId", "status", "error"}
                /\ ev.error \in {ErrProbe, ErrProbeParse, ErrDetect, ErrNoScenes,
                                 ErrExtract, ErrThumbnail}

\* a run failed on its second extraction, after a clip had been extracted
C9_Witness ==
    \E r \in DOMAIN runs :
        Failed(r) /\ runs[r].clipResults # <<>> /\ LastEvent(r).error = ErrExtract

\* C10: while the stored status of a video is "error", a status query for it
\* returns no clips.
C10_FailedExposesNoClips ==
    \A id \in DOMAIN videos :
        videos[id].processingStatus = "error" => StatusResponse(id).clips = <<>>

Terminal == {"completed", "error"}

\* the step is an accepted start of id: its record turns to processing and a
\* new run of id begins
AcceptedStart(id) ==
    /\ Len(runs') = Len(runs) + 1
    /\ runs'[Len(runs')].videoId = id
    /\ videos'[id].processingStatus = "processing"

\* C11: a record that is completed or in error is changed by nothing but a
\* newly accepted start of its video; no step of a run changes it.
C11_TerminalIsFrozen ==
    [][\A id \in DOMAIN videos :
          (videos[id].processingStatus \in Terminal /\ videos'[id] # videos[id])
              => AcceptedStart(id)]_vars

\* the last run started for the video of run r
Latest(r) == \A r2 \in DOMAIN runs : runs[r2].videoId = runs[r].videoId => r2 <= r

\* C12: once the latest run of a video has completed, the status query
\* returns that run's clips and no others, each scene index once.
C12_RestartReplacesClips ==
    \A r \in DOMAIN runs :
        (Completed(r) /\ Latest(r)) =>
            LET answer == StatusResponse(runs[r].videoId).clips
            IN  /\ answer = EventClips(r)
                /\ \A j, k \in DOMAIN answer :
                      answer[j].sceneIndex = answer[k].sceneIndex => j = k

\* C13: a run broadcasts one terminal event at most, completed or error and
\* never both; the terminal event is the last event of the run, and a run
\* that has ended has broadcast one.
C13_OneTerminalEventLast ==
    \A r \in DOMAIN runs :
        LET events == runs[r].events
        IN  /\ \A k \in DOMAIN events :
                  events[k].status \in Terminal => (k = Len(events) /\ Done(r))
            /\ Done(r) => (events # <<>> /\ LastEvent(r).status \in Terminal)

\* a run has ended with its completed event after five progress events or more
C13_Witness ==
    \E r \in DOMAIN runs :
        /\ Completed(r)
        /\ Len(runs[r].events) >= 6
        /\ \A k \in 1 .. Len(runs[r].events) - 1 : runs[r].events[k].status = "processing"

\* C14: when every child process returns in the end, a run that has started
\* ends: the record of its video becomes completed or error and the run has
\* broadcast the terminal event.
C14_EveryRunEnds ==
    (runs # <<>>) ~>
        (/\ runs # <<>>
         /\ Done(1)
         /\ videos[runs[1].videoId].processingStatus \in Terminal
         /\ LastEvent(1).status = videos[runs[1].videoId].processingStatus)

\* a run that has extracted a clip has ended completed
C14_Witness ==
    /\ runs # <<>>
    /\ Completed(1)
    /\ Len(runs[1].clipResults) >= 1
    /\ videos[1].processingStatus = "completed"

\* the events of video id in the order of their broadcast by the runs 1 .. n,
\* for runs that follow one another
RECURSIVE Published(_, _)
Published(id, n) ==
    IF n = 0 THEN <<>>
    ELSE Published(id, n - 1)
            \o (IF runs[n].videoId = id THEN runs[n].events ELSE <<>>)

\* s is t with some of its elements left out
RECURSIVE IsSubsequence(_, _)
IsSubsequence(s, t) ==
    IF s = <<>> THEN TRUE
    ELSE IF t = <<>> THEN FALSE
    ELSE IF Head(s) = Head(t) THEN IsSubsequence(Tail(s), Tail(t))
    ELSE IsSubsequence(s, Tail(t))

OfVideo(events, id) == SelectSeq(events, LAMBDA ev : ev.videoId = id)

\* C15: what a client has been sent about a video is, in the same order, a
\* part of what has been broadcast about that video.
C15_ReceivedInPublishedOrder ==
    \A c \in DOMAIN clients : \A id \in DOMAIN videos :
        IsSubsequence(OfVideo(clients[c].received, id), Published(id, Len(runs)))

\* a client that connected during the run has been sent three events or more,
\* and fewer than the run has broadcast
C15_Witness ==
    \E c \in DOMAIN clients :
        /\ Len(clients[c].received) >= 3
        /\ Len(clients[c].received) < Len(Published(1, Len(runs)))

\* the events that the step broadcasts
NewEvents ==
    IF runs' = runs THEN <<>>
    ELSE IF Len(runs') > Len(runs) THEN runs'[Len(runs')].events
    ELSE LET r == CHOOSE r \in DOMAIN runs : runs'[r] # runs[r]
         IN  SubSeq(runs'[r].events, Len(runs[r].events) + 1, Len(runs'[r].events))

\* C16: in every step a client that is not open is sent nothing and every
\* open client is sent all that the step broadcasts, whatever the state of
\* the other clients; a step in which a client connects or disconnects
\* changes no run, record or clip.
C16_ClosedClientsAreSkipped ==
    [][/\ \A c \in DOMAIN clients :
             clients'[c].received =
                 IF clients[c].readyState = OPEN
                 THEN clients[c].received \o NewEvents
                 ELSE clients[c].received
       /\ (\/ Len(clients') # Len(clients)
           \/ \E c \in DOMAIN clients :
                 clients'[c].readyState # clients[c].readyState)
              => UNCHANGED <<videos, videoId, clips, runs>>]_vars

\* the run has completed after the first client had disconnected, and the
\* second client has been sent every event of the run
C16_Witness ==
    /\ Len(clients) = 2
    /\ runs # <<>>
    /\ Completed(1)
    /\ clients[1].readyState = CLOSED
    /\ Len(clients[1].received) \in 1 .. Len(runs[1].events) - 1
    /\ clients[2].readyState = OPEN
    /\ clients[2].received = runs[1].events

\* C17: while a run of a video is under way, the status query answers with the
\* progress and the stage of the last progress event of the run.
C17_StatusShowsLastProgress ==
    \A r \in DOMAIN runs :
        (~Done(r) /\ Latest(r)) =>
            LET answer == StatusResponse(runs[r].videoId)
            IN  /\ answer.progress = LastEvent(r).progress
                /\ "stage" \in DOMAIN answer
                /\ answer.stage = LastEvent(r).stage

\* the step is one of a run of video id, its start included
StepOfRun(id) ==
    \E r \in DOMAIN runs' :
        /\ runs'[r].videoId = id
        /\ r \in DOMAIN runs => runs'[r] # runs[r]

\* C18: a step of a run of video A changes neither the record nor the clips
\* of any other video, and every event it broadcasts carries the id A.
C18_RunsAreIsolated ==
    [][\A A \in DOMAIN videos :
          StepOfRun(A) =>
              /\ \A B \in DOMAIN videos \ {A} :
                    /\ videos'[B] = videos[B]
                    /\ getClipsByVideo(clips', B) = getClipsByVideo(clips, B)
              /\ \A k \in DOMAIN NewEvents : NewEvents[k].videoId = A]_vars

\* the run of one video has completed with a clip while the run of another
\* video, started before that, waits for its clip
C18_Witness ==
    \E r, q \in DOMAIN runs :
        /\ runs[r].videoId # runs[q].videoId
        /\ Completed(r)
        /\ runs[r].saved # <<>>
        /\ runs[q].pc = "extractClip"
        /\ videos[runs[q].videoId].processingStatus = "processing"

\* the messages with which a primitive fails processVideo
StageErrors(primitive) ==
    CASE primitive = "getVideoInfo" -> {ErrProbe, ErrProbeParse}
      [] primitive = "detectScenes" -> {ErrDetect, ErrNoScenes}
      [] primitive = "extractClip" -> {ErrExtract}
      [] primitive = "generateThumbnail" -> {ErrThumbnail}

CallsOf(r, primitive) == {k \in DOMAIN runs[r].calls : runs[r].calls[k][1] = primitive}

\* C19: a run ends completed or failed.  It ends completed only when every
\* primitive it called has succeeded; when it ends failed, the record of its
\* video is in error and the error event carries the message of the
\* primitive called last.
C19_FailureIsReported ==
    \A r \in DOMAIN runs :
        Done(r) =>
            \/ /\ Completed(r)
               /\ runs[r].videoInfo # NoValue
               /\ runs[r].scenes # <<>>
               /\ Cardinality(CallsOf(r, "extractClip")) = Len(runs[r].clipResults)
               /\ Cardinality(CallsOf(r, "generateThumbnail")) = Len(runs[r].clipResults)
            \/ /\ Failed(r)
               /\ videos[runs[r].videoId].processingStatus = "error"
               /\ LastEvent(r).error
                     \in StageErrors(runs[r].calls[Len(runs[r].calls)][1])

\* a run has failed on the thumbnail of its second clip
C19_Witness ==
    \E r \in DOMAIN runs :
        /\ Failed(r)
        /\ LastEvent(r).error = ErrThumbnail
        /\ Len(runs[r].clipResults) = 1
        /\ videos[runs[r].videoId].processingStatus = "error"

\* C20: a start request or a status query for an id without a record is
\* answered 404 and changes no record, clip, run or client.
C20_UnknownIdChangesNothing ==
    [][\A id \in VideoIds :
          (/\ id \notin DOMAIN videos
           /\ resp' # resp
           /\ resp'.req \in {"process", "status"}
           /\ resp'.id = id)
              => /\ resp'.code = 404
                 /\ UNCHANGED <<videos, videoId, clips, runs, clients>>]_vars

\* while a run is under way, the status of an id without a record has been
\* asked for
C20_Witness ==
    /\ resp.req = "status"
    /\ resp.code = 404
    /\ resp.id \notin DOMAIN videos
    /\ runs # <<>>
    /\ ~Done(1)

\* C21: the only event of a run that carries the percentage 100 is its
\* completed event.
C21_HundredOnlyWhenCompleted ==
    \A r \in DOMAIN runs : \A k \in DOMAIN runs[r].events :
        LET ev == runs[r].events[k]
        IN  ("progress" \in DOMAIN ev /\ ev.progress = 100) => ev.status = "completed"

\* the progress events of run r that report an extracted clip
ExtractionEvents(r) ==
    SelectSeq(runs[r].events,
              LAMBDA ev : ev.status = "processing" /\ ev.stage[1] = "Extracting clip")

\* C22: a run that has gone through its n candidates has emitted n extraction
\* progress events, one for each candidate, kept or discarded.
C22_OneEventPerCandidate ==
    \A r \in DOMAIN runs :
        Completed(r) => Len(ExtractionEvents(r)) = Len(runs[r].scenes)

\* C23: the percentages are 5, 15 and 30 at the start of Probing, Detecting
\* and Extracting, and after candidate k of n the percentage is within one of
\* 30 + 70 * k / n.
C23_ProgressBlend ==
    \A r \in DOMAIN runs : \A k \in DOMAIN runs[r].events :
        LET ev == runs[r].events[k]
        IN  ev.status = "processing" =>
                CASE ev.stage[1] = "Analyzing video..." -> ev.progress = 5
                  [] ev.stage[1] = "Detecting scenes..." -> ev.progress = 15
                  [] ev.stage[1] = "Extracting clips..." -> ev.progress = 30
                  [] ev.stage[1] = "Extracting clip" ->
                        /\ ev.stage[3] * (ev.progress - 30) > 70 * ev.stage[2] - ev.stage[3]
                        /\ ev.stage[3] * (ev.progress - 30) < 70 * ev.stage[2] + ev.stage[3]
                  [] OTHER -> TRUE

\* C24: the thumbnail of a retained scene [start, end) of duration d is taken
\* at start + min(1000, d / 2), a position with start <= position < end
\* (positions are counted in half milliseconds).
C24_ThumbnailInsideScene ==
    \A r \in DOMAIN runs : \A k \in DOMAIN runs[r].calls :
        runs[r].calls[k][1] = "generateThumbnail" =>
            LET extract == runs[r].calls[k - 1]
                start == extract[2]
                end == extract[3]
                d == end - start
                position2 == runs[r].calls[k][2]
            IN  /\ extract[1] = "extractClip"
                /\ position2 = 2 * start + (IF 1000 * 2 < d THEN 1000 * 2 ELSE d)
                /\ 2 * start <= position2
                /\ position2 < 2 * end

\* thumbnails have been taken of a scene of 500 ms and of a scene of two
\* seconds
C24_Witness ==
    \E r \in DOMAIN runs : \E j, k \in DOMAIN runs[r].calls :
        /\ runs[r].calls[j][1] = "generateThumbnail"
        /\ runs[r].calls[k][1] = "generateThumbnail"
        /\ runs[r].calls[j - 1][3] - runs[r].calls[j - 1][2] = 500
        /\ runs[r].calls[k - 1][3] - runs[r].calls[k - 1][2] >= 2000

\* C25: a run that has failed has stored no clip and none of its events
\* carries clips, whatever it had extracted before the failure; the stored
\* clips are those saved by the runs that completed.
C25_FailureStoresNothing ==
    /\ \A r \in DOMAIN runs :
          /\ runs[r].saved # <<>> => Completed(r)
          /\ Failed(r) =>
                \A k \in DOMAIN runs[r].events : "clips" \notin DOMAIN runs[r].events[k]
    /\ DOMAIN clips
          = UNION {{runs[r].saved[k] : k \in DOMAIN runs[r].saved} : r \in DOMAIN runs}

\* a run has failed on its third extraction, after two clips and their
\* thumbnails
C25_Witness ==
    \E r \in DOMAIN runs :
        /\ Failed(r)
        /\ Len(runs[r].clipResults) = 2
        /\ LastEvent(r).error = ErrExtract
        /\ clips = <<>>

\* C26: the boundaries that detectScenes returns begin at 0 and are strictly
\* increasing.
C26_BoundariesStrictlyIncrease ==
    \A r \in DOMAIN runs :
        runs[r].scenes # <<>> =>
            /\ runs[r].scenes[1] = 0
            /\ \A k \in 1 .. Len(runs[r].scenes) - 1 :
                  runs[r].scenes[k] < runs[r].scenes[k + 1]

\* the boundaries begin at 0 and never decrease
C26_BoundariesNeverDecrease ==
    \A r \in DOMAIN runs :
        runs[r].scenes # <<>> =>
            /\ runs[r].scenes[1] = 0
            /\ \A k \in 1 .. Len(runs[r].scenes) - 1 :
                  runs[r].scenes[k] <= runs[r].scenes[k + 1]

\* C27: a run calls the probe once and the scan once at most, extractClip
\* once at most for a candidate and generateThumbnail only after the
\* extractClip of its scene, so never more often; once a run has ended it
\* calls nothing more.
C27_NoStageIsRetried ==
    /\ [](\A r \in DOMAIN runs :
            LET calls == runs[r].calls
            IN  /\ Cardinality(CallsOf(r, "getVideoInfo")) <= 1
                /\ Cardinality(CallsOf(r, "detectScenes")) <= 1
                /\ \A j, k \in CallsOf(r, "extractClip") :
                      calls[j] = calls[k] => j = k
                /\ \A k \in CallsOf(r, "extractClip") :
                      \E i \in DOMAIN runs[r].scenes :
                          /\ calls[k][2] = runs[r].scenes[i]
                          /\ calls[k][3] = SceneEnd(runs[r].scenes,
                                                    runs[r].videoInfo.duration, i)
                /\ \A k \in CallsOf(r, "generateThumbnail") :
                      calls[k - 1][1] = "extractClip")
    /\ [][\A r \in DOMAIN runs :
             Done(r) => runs'[r].calls = runs[r].calls]_vars

\* a run has failed on its second thumbnail after four calls that succeeded
C27_Witness ==
    \E r \in DOMAIN runs :
        /\ Failed(r)
        /\ Len(runs[r].calls) = 6
        /\ LastEvent(r).error = ErrThumbnail

RunsOf(id) == {r \in DOMAIN runs : runs[r].videoId = id}

\* C28: a video for which no start has been accepted is pending; from the
\* step that accepts a start on, with the run's first event and first call,
\* the video is not pending, and it is processing while its run goes on.
C28_PendingUntilStarted ==
    /\ \A id \in DOMAIN videos :
          RunsOf(id) = {} => videos[id].processingStatus = "pending"
    /\ \A r \in DOMAIN runs :
          /\ videos[runs[r].videoId].processingStatus # "pending"
          /\ runs[r].events # <<>>
          /\ ~Done(r) => videos[runs[r].videoId].processingStatus = "processing"

\* a run has just been started with its first event, and another video is
\* still pending
C28_Witness ==
    \E r \in DOMAIN runs : \E id \in DOMAIN videos :
        /\ Len(runs[r].events) = 1
        /\ runs[r].calls = <<(<<"getVideoInfo">>)>>
        /\ videos[runs[r].videoId].processingStatus = "processing"
        /\ videos[id].processingStatus = "pending"

\* C29: when a run has broadcast its completed event, the record of the
\* video is completed and holds the probed metadata, every clip of the event
\* is stored, a status query answers completed, 100 and a clip list that
\* contains the clips of the event, and the event's sceneCount is the number
\* of its clips.
C29_CompletedEventIsStored ==
    \A r \in DOMAIN runs :
        (Completed(r) /\ Latest(r)) =>
            LET ev == LastEvent(r)
                id == runs[r].videoId
                answer == StatusResponse(id)
            IN  /\ videos[id].processingStatus = "completed"
                /\ videos[id].duration = formatDuration(runs[r].videoInfo.duration)
                /\ videos[id].format = runs[r].videoInfo.format
                /\ videos[id].resolution = runs[r].videoInfo.resolution
                /\ \A k \in DOMAIN ev.clips :
                      /\ ev.clips[k].id \in DOMAIN clips
                      /\ ClipInfo(clips[ev.clips[k].id]) = ev.clips[k]
                      /\ \E j \in DOMAIN answer.clips : answer.clips[j] = ev.clips[k]
                /\ answer.status = "completed"
                /\ answer.progress = 100
                /\ ev.videoInfo.sceneCount = Len(ev.clips)

\* after a run completed with a clip, the status has been asked for and the
\* answer had the clips of the completed event
C29_Witness ==
    /\ runs # <<>>
    /\ Completed(1)
    /\ EventClips(1) # <<>>
    /\ resp.req = "status"
    /\ resp.code = 200
    /\ resp.status = "completed"
    /\ resp.clips = EventClips(1)

\* C30: the clips of a completed run are in the order of their start times,
\* none begins before its predecessor ends, and each lies within 0 and the
\* probed duration.
C30_ClipsOrderedWithinDuration ==
    \A r \in DOMAIN runs :
        Completed(r) =>
            LET c == EventClips(r)
            IN  /\ \A k \in 1 .. Len(c) - 1 :
                      /\ c[k].startTime <= c[k + 1].startTime
                      /\ c[k].endTime <= c[k + 1].startTime
                /\ \A k \in DOMAIN c :
                      /\ 0 <= c[k].startTime
                      /\ c[k].endTime <= runs[r].videoInfo.duration

\* every candidate of the run is shorter than the minimum scene duration
AllShort(r) ==
    /\ runs[r].scenes # <<>>
    /\ \A k \in DOMAIN runs[r].scenes :
          ~LongEnough(Candidates(runs[r].scenes, runs[r].videoInfo.duration)[k])

\* C31: a run all of whose candidate scenes are shorter than 500 ms calls no
\* extraction and ends completed, with an empty clip list and sceneCount 0;
\* it is not reported failed and stores no clip.
C31_AllShortCompletesEmpty ==
    \A r \in DOMAIN runs :
        AllShort(r) =>
            /\ Completed(r)
            /\ ~Failed(r)
            /\ CallsOf(r, "extractClip") = {}
            /\ CallsOf(r, "generateThumbnail") = {}
            /\ EventClips(r) = <<>>
            /\ LastEvent(r).videoInfo.sceneCount = 0
            /\ runs[r].saved = <<>>
            /\ \A k \in DOMAIN runs[r].events : runs[r].events[k].status # "error"

\* a run with two candidates, both too short, has completed without a clip
C31_Witness ==
    /\ runs # <<>>
    /\ AllShort(1)
    /\ Len(runs[1].scenes) >= 2
    /\ Completed(1)
    /\ EventClips(1) = <<>>
    /\ videos[runs[1].videoId].processingStatus = "completed"

\* C32: the clip list of a status response for a video holds each clip stored
\* with that videoId once and no other clip, in ascending sceneIndex order.
C32_StatusClipsAreTheVideos ==
    \A id \in DOMAIN videos :
        LET answer == StatusResponse(id).clips
        IN  /\ \A k \in DOMAIN answer :
                  /\ answer[k].videoId = id
                  /\ answer[k].id \in DOMAIN clips
                  /\ answer[k] = ClipInfo(clips[answer[k].id])
            /\ \A c \in DOMAIN clips :
                  clips[c].videoId = id =>
                      Cardinality({k \in DOMAIN answer : answer[k].id = c}) = 1
            /\ \A k \in 1 .. Len(answer) - 1 :
                  answer[k].sceneIndex <= answer[k + 1].sceneIndex

\* two videos have clips stored, and the status of each lists clips
C32_Witness ==
    \E id1, id2 \in DOMAIN videos :
        /\ id1 # id2
        /\ Len(StatusResponse(id1).clips) >= 2
        /\ Len(StatusResponse(id2).clips) >= 2
        /\ Len(clips) = Len(StatusResponse(id1).clips) + Len(StatusResponse(id2).clips)

\* C33: while a run of Home's video is in progress, no step of Home, for a
\* pushed message or for a polled response, lowers the progress it holds.
C33_ProgressNeverDecreases ==
    [][(/\ home.uploadedVideoId # 0
        /\ ActiveRuns(home.uploadedVideoId) # {}
        /\ ActiveRuns(home.uploadedVideoId)' = ActiveRuns(home.uploadedVideoId))
       => home'.processingStatus.progress >= home.processingStatus.progress]_vars

\* the message Home handles in this step, if it handles one
Handled == clients[home.ws].received[home.seen + 1]

\* C34: Home applies a pushed message to its processing status, clips and
\* video info when the message's videoId is the uploaded video's id, and a
\* message of another video leaves the three as they were.
C34_OnlyOwnMessagesApplied ==
    [][home'.seen = home.seen + 1 =>
          IF Handled.videoId = home.uploadedVideoId
          THEN /\ home'.processingStatus.status = Handled.status
               /\ "progress" \in DOMAIN Handled =>
                      home'.processingStatus.progress = Handled.progress
               /\ "videoInfo" \in DOMAIN Handled =>
                      home'.videoInfo = <<Handled.videoInfo>>
               /\ ("clips" \in DOMAIN Handled /\ Handled.clips # <<>>) =>
                      home'.clips = Handled.clips
          ELSE /\ home'.processingStatus = home.processingStatus
               /\ home'.clips = home.clips
               /\ home'.videoInfo = home.videoInfo]_vars

\* Home has handled the completed event of the other video, with a clip, and
\* holds neither its status nor its clip, its own run being under way
C34_Witness ==
    /\ home.uploadedVideoId = 1
    /\ home.ws # 0
    /\ \E k \in 1 .. home.seen :
          /\ clients[home.ws].received[k].videoId = 2
          /\ clients[home.ws].received[k].status = "completed"
          /\ clients[home.ws].received[k].clips # <<>>
    /\ \E k \in 1 .. home.seen : clients[home.ws].received[k].videoId = 1
    /\ home.processingStatus.status = "processing"
    /\ home.clips = <<>>
    /\ home.videoInfo = <<>>

\* C35: useWebSocket opens a WebSocket only while it is mounted and enabled;
\* once it is disabled or unmounted it opens none.
C35_NoConnectionOnceDisabled ==
    [][Len(hook'.sockets) > Len(hook.sockets) =>
          (hook'.mounted /\ hook'.enabled)]_vars

\* every run of Home's video has ended and no start of another is on its way
RunsEnded ==
    /\ home.uploadedVideoId # 0
    /\ \E r \in DOMAIN runs : runs[r].videoId = home.uploadedVideoId
    /\ ActiveRuns(home.uploadedVideoId) = {}
    /\ home.request = "none"

\* C36: when Home holds the status "processing" and the run of its video
\* has ended, Home comes to hold the terminal status of the video
\* (completed or error), by its polling alone.
C36_PollingReachesTerminal ==
    (RunsEnded /\ home.processingStatus.status = "processing")
        ~> (/\ RunsEnded
            /\ home.processingStatus.status = videos[home.uploadedVideoId].processingStatus
            /\ home.processingStatus.status \in {"completed", "error"})

====
